---- MODULE Spec2Model ----
(***************************************************************************)
(* Bidirectional Packet Protocol (BDPP) of the Agon video firmware:        *)
(* packets (video/bdpp/packet.h), the queue set and the public API         *)
(* (video/bdpp/bdp_protocol.cpp), run by one foreground context against    *)
(* the interrupt context of the UHCI transport.                            *)
(***************************************************************************)
EXTENDS Integers, Sequences, FiniteSets, TLC

(* ------------------------------------------------------------------ *)
(* Constants of packet.h                                               *)
(* ------------------------------------------------------------------ *)
BDDP_MAX_PACKET_DATA_SIZE == 4072
BDPP_SMALL_PACKET_DATA_SIZE == 32
BDPP_MAX_APP_PACKETS == 16
BDPP_MAX_STREAMS == 16
BDPP_MAX_RX_PACKETS == 4
BDPP_PKT_FLAG_COMMAND == 1
BDPP_PKT_FLAG_RESPONSE == 2
BDPP_PKT_FLAG_FIRST == 4
BDPP_PKT_FLAG_LAST == 8
BDPP_PKT_FLAG_READY == 16
BDPP_PKT_FLAG_DONE == 32
BDPP_PKT_FLAG_FOR_RX == 64
BDPP_PKT_FLAG_APP_OWNED == 128
BDPP_PKT_FLAG_USAGE_BITS == 15
BDPP_PKT_FLAG_PROCESS_BITS == 240

\* The transmit "work pending" bit of the UHCI interrupt-enable mask.
UHCI_INTR_OUT_EOF == "OUT_EOF"
\* The receive bits of the UHCI interrupt-enable mask, enabled by uart_dma_read.
UHCI_INTR_IN == "IN"

(* ------------------------------------------------------------------ *)
(* Bounds of the model                                                 *)
(* ------------------------------------------------------------------ *)
\* Packets one run handles: TX packets the application creates plus RX buffers
\* the transport arms.
MaxTraffic == 3

\* Calls of set_flags / clear_flags made in a row on one packet.
MaxCalls == 2

NULL == 0
RxIds == 1..BDPP_MAX_APP_PACKETS
TxIds == (BDPP_MAX_APP_PACKETS + 1)..(BDPP_MAX_APP_PACKETS + MaxTraffic)
Streams == 0..(BDPP_MAX_STREAMS - 1)

\* Frames (stream, payload length) the peer sends.
RxFrames == {<<2, 0>>, <<5, 3>>}
\* Streams the application polls.
PollStreams == {0, 2, 5}
\* TX packets the application creates: ownership class, flags, packet_index, stream_index.
TxCreates == {<<"app", 1, 1, 3>>, <<"driver", 255, 15, 15>>}
\* The payload the application puts in a TX packet.
TxPayload == <<1, 2, 3>>

(* ------------------------------------------------------------------ *)
(* uint8_t arithmetic                                                  *)
(* ------------------------------------------------------------------ *)
Bit(x, k) == (x \div (2 ^ k)) % 2

BitAnd(a, b) ==
    Bit(a, 0) * Bit(b, 0) + 2 * Bit(a, 1) * Bit(b, 1) + 4 * Bit(a, 2) * Bit(b, 2)
    + 8 * Bit(a, 3) * Bit(b, 3) + 16 * Bit(a, 4) * Bit(b, 4) + 32 * Bit(a, 5) * Bit(b, 5)
    + 64 * Bit(a, 6) * Bit(b, 6) + 128 * Bit(a, 7) * Bit(b, 7)

BitOr(a, b) == (a % 256) + (b % 256) - BitAnd(a, b)

BitNot(a) == 255 - (a % 256)

(* ------------------------------------------------------------------ *)
(* class Packet (packet.h)                                             *)
(* ------------------------------------------------------------------ *)
\* Packet::Packet: the DMA buffer, flags, packed indexes, capacity by ownership
\* class, length 0.
Packet(flags, packet_index, stream_index) ==
    [uhci_packet |-> "buffer",
     flags    |-> flags % 256,
     indexes  |-> BitOr(packet_index, stream_index * 16) % 256,
     max_size |-> IF BitAnd(flags, BDPP_PKT_FLAG_APP_OWNED) # 0
                  THEN BDDP_MAX_PACKET_DATA_SIZE ELSE BDPP_SMALL_PACKET_DATA_SIZE,
     act_size |-> 0,
     data     |-> << >>]

\* The usage mask is forgotten: the flags are passed on as given.
create_driver_tx_packet_unmasked(flags, packet_index, stream_index) ==
    Packet(flags, packet_index, stream_index)

create_driver_tx_packet(flags, packet_index, stream_index) ==
    Packet(BitAnd(flags, BDPP_PKT_FLAG_USAGE_BITS), packet_index, stream_index)

\* The ownership bit is not added.
create_app_tx_packet_unowned(flags, packet_index, stream_index) ==
    Packet(BitAnd(flags, BDPP_PKT_FLAG_USAGE_BITS), packet_index, stream_index)

create_app_tx_packet(flags, packet_index, stream_index) ==
    Packet(BitOr(BitAnd(flags, BDPP_PKT_FLAG_USAGE_BITS), BDPP_PKT_FLAG_APP_OWNED),
           packet_index, stream_index)

\* READY is left out of the flags of a new RX packet.
create_rx_packet_not_ready ==
    Packet(BitOr(BDPP_PKT_FLAG_FOR_RX, BDPP_PKT_FLAG_APP_OWNED), 0, 0)

create_rx_packet ==
    Packet(BitOr(BitOr(BDPP_PKT_FLAG_FOR_RX, BDPP_PKT_FLAG_READY), BDPP_PKT_FLAG_APP_OWNED), 0, 0)

is_flag_set(p, flag) == BitAnd(p.flags, flag) # 0
get_flags(p) == p.flags
get_packet_index(p) == BitAnd(p.indexes, 15)
\* The stream bits are masked but not shifted down.
get_stream_index_unshifted(p) == BitAnd(p.indexes, 240)
get_stream_index(p) == p.indexes \div 16
get_maximum_data_size(p) == p.max_size
get_actual_data_size(p) == p.act_size
\* The packet counts as full only once it is over its capacity.
is_full_over(p) == get_actual_data_size(p) > get_maximum_data_size(p)
is_full(p) == get_actual_data_size(p) >= get_maximum_data_size(p)
\* The flags are assigned, not ORed in.
set_flags_assign(p, flags) == [p EXCEPT !.flags = flags % 256]
\* The flags are toggled (^=), not ORed in.
set_flags_toggled(p, flags) ==
    [p EXCEPT !.flags = BitOr(p.flags, flags) - BitAnd(p.flags, flags)]
set_flags(p, flags) == [p EXCEPT !.flags = BitOr(p.flags, flags)]
\* The complement is missing: flags &= flags.
clear_flags_uncomplemented(p, flags) == [p EXCEPT !.flags = BitAnd(p.flags, flags)]
clear_flags(p, flags) == [p EXCEPT !.flags = BitAnd(p.flags, BitNot(flags))]
\* The length is advanced twice for one byte.
append_data_twice(p, data_byte) ==
    [p EXCEPT !.data = Append(p.data, data_byte), !.act_size = (p.act_size + 2) % 65536]
append_data(p, data_byte) ==
    [p EXCEPT !.data = Append(p.data, data_byte), !.act_size = (p.act_size + 1) % 65536]
append_data_bytes(p, data_bytes, count) ==
    [p EXCEPT !.data = p.data \o SubSeq(data_bytes, 1, count),
              !.act_size = (p.act_size + count) % 65536]

(* ------------------------------------------------------------------ *)
(* State                                                               *)
(* ------------------------------------------------------------------ *)
VARIABLES
    bdpp_initialized,   \* bdp_protocol.cpp:28
    bdpp_tx_queue,      \* bdp_protocol.cpp:29, a sequence of packet ids
    bdpp_rx_queue,      \* bdp_protocol.cpp:30, one sequence per stream
    bdpp_free_queue,    \* bdp_protocol.cpp:31
    heap,               \* the Packet objects allocated so far, by id
    int_ena,            \* the UHCI interrupt-enable mask, a set of bits
    armed,              \* RX buffers handed to the transport for reception
    txInFlight,         \* the TX packet handed to the DMA engine, or NULL
    pc,                 \* position of the foreground context
    fgArg,              \* argument of the running call (stream, packet or loop index)
    fgOld,              \* old_int of the running call
    fgRes,              \* the local packet of the running call
    fgAvail,            \* the local available of the running call
    fgEntry,            \* the queues and packets as they were when the call began
    building,           \* the TX packet the application is filling, or NULL
    appHeld,            \* RX packets the application got and has not recycled
    txSubmitted,        \* history: packets in the order queue_tx_packet returned
    txWire,             \* history: packets in the order the transport drained them
    rxCompleted,        \* history, per stream: packets in completion order
    rxReturned,         \* history, per stream: packets in the order get_rx_packet returned them
    madeBy,             \* history, per packet id: the factory that made the packet
    calls,              \* history: the latest calls made on a packet studied on its own
    polled              \* history: streams rx_packet_available found a packet on, not got from since

vars == <<bdpp_initialized, bdpp_tx_queue, bdpp_rx_queue, bdpp_free_queue, heap, int_ena,
          armed, txInFlight, pc, fgArg, fgOld, fgRes, fgAvail, fgEntry, building,
          appHeld,
          txSubmitted, txWire, rxCompleted, rxReturned, madeBy, calls, polled>>

queues == <<bdpp_tx_queue, bdpp_rx_queue, bdpp_free_queue>>
transport == <<armed, txInFlight>>
locals == <<fgArg, fgOld, fgRes, fgAvail, fgEntry>>
history == <<txSubmitted, txWire, rxCompleted, rxReturned>>
study == <<madeBy, calls, polled>>

\* What a call can compare its effect against.
Snapshot ==
    [tx |-> bdpp_tx_queue, rx |-> bdpp_rx_queue, free |-> bdpp_free_queue,
     heap |-> heap, ena |-> int_ena]

NoEntry ==
    [tx |-> << >>, rx |-> [s \in Streams |-> << >>], free |-> << >>,
     heap |-> << >>, ena |-> {}]

\* Globals are zero-initialised and the queues are constructed empty.
Init ==
    /\ bdpp_initialized = FALSE
    /\ bdpp_tx_queue = << >>
    /\ bdpp_rx_queue = [s \in Streams |-> << >>]
    /\ bdpp_free_queue = << >>
    /\ heap = << >>
    /\ int_ena = {}
    /\ armed = << >>
    /\ txInFlight = NULL
    /\ pc = "start"
    /\ fgArg = 0
    /\ fgOld = {}
    /\ fgRes = NULL
    /\ fgAvail = FALSE
    /\ fgEntry = NoEntry
    /\ building = NULL
    /\ appHeld = {}
    /\ txSubmitted = << >>
    /\ txWire = << >>
    /\ rxCompleted = [s \in Streams |-> << >>]
    /\ rxReturned = [s \in Streams |-> << >>]
    /\ madeBy = << >>
    /\ calls = << >>
    /\ polled = {}

Range(seq) == {seq[i] : i \in 1..Len(seq)}

\* The packets held by the first n queues of an array of queues.
RECURSIVE SumLen(_, _)
SumLen(f, n) == IF n = 0 THEN 0 ELSE Len(f[n - 1]) + SumLen(f, n - 1)

\* RX buffers the transport has armed so far.
RxArmedTotal == Len(armed) + SumLen(rxCompleted, BDPP_MAX_STREAMS)

\* TX packets the application has created so far.
TxCreated == IF Len(heap) > BDPP_MAX_APP_PACKETS THEN Len(heap) - BDPP_MAX_APP_PACKETS ELSE 0

(* ------------------------------------------------------------------ *)
(* Transport primitives (uhci_driver)                                  *)
(* ------------------------------------------------------------------ *)
\* uhci_disable_interrupts(): masks the transport's interrupt source and
\* returns the mask that was in force.
uhci_disable_interrupts == {}

\* uhci_enable_interrupts(mask): installs the mask.
uhci_enable_interrupts(mask) == mask

\* uart_dma_read(): starts DMA reception, enabling the receive interrupts.
uart_dma_read == {UHCI_INTR_IN}

(* ------------------------------------------------------------------ *)
(* bdpp_initialize_driver (bdp_protocol.cpp:42-69)                     *)
(* ------------------------------------------------------------------ *)
bdpp_is_initialized == bdpp_initialized

\* The application calls bdpp_initialize_driver() once, first.
InitCall ==
    /\ pc = "start"
    /\ pc' = "init_fill"
    /\ fgArg' = 0
    /\ UNCHANGED <<bdpp_initialized, queues, heap, int_ena, transport, fgOld, fgRes,
                   fgAvail, fgEntry, building, appHeld, history>>
    /\ UNCHANGED study

\* The loop runs once too often.
init_fill_more_off_by_one(i) == i <= BDPP_MAX_APP_PACKETS

\* The loop stops at the count of buffers the transport arms at once.
init_fill_more_short(i) == i < BDPP_MAX_RX_PACKETS

\* Line 48: the loop condition.
init_fill_more(i) == i < BDPP_MAX_APP_PACKETS

\* One iteration of the loop of lines 48-50, or its exit.
InitFill ==
    /\ pc = "init_fill"
    /\ IF init_fill_more(fgArg)
       THEN /\ heap' = Append(heap, create_rx_packet)
            /\ bdpp_free_queue' = Append(bdpp_free_queue, Len(heap) + 1)
            /\ madeBy' = Append(madeBy, "create_rx_packet")
            /\ fgArg' = fgArg + 1
            /\ pc' = pc
       ELSE /\ pc' = "init_hw"
            /\ UNCHANGED <<heap, bdpp_free_queue, madeBy, fgArg>>
    /\ UNCHANGED <<bdpp_initialized, bdpp_tx_queue, bdpp_rx_queue, int_ena, transport,
                   fgOld, fgRes, fgAvail, fgEntry, building, appHeld, history>>
    /\ UNCHANGED <<calls, polled>>

\* Lines 53-67: the UART is set up, the UHCI driver installed and attached,
\* and DMA reception started.
InitHw ==
    /\ pc = "init_hw"
    /\ int_ena' = uart_dma_read
    /\ pc' = "init_flag"
    /\ UNCHANGED <<bdpp_initialized, queues, heap, transport, locals, building, appHeld,
                   history>>
    /\ UNCHANGED study

\* Line 68.
InitFlag ==
    /\ pc = "init_flag"
    /\ bdpp_initialized' = TRUE
    /\ pc' = "idle"
    /\ UNCHANGED <<queues, heap, int_ena, transport, locals, building, appHeld, history>>
    /\ UNCHANGED study

\* Line 49 when heap_caps_calloc (packet.h:75) has no memory left and returns
\* NULL: the constructor writes the header through the null pointer without a
\* test. The write either traps, which stops the program, or goes through, and
\* the loop goes on with a packet that has no buffer.
InitFillNoMemory ==
    /\ pc = "init_fill"
    /\ init_fill_more(fgArg)
    /\ \A p \in DOMAIN heap : heap[p].uhci_packet # "NULL"
    /\ \/ /\ pc' = "panic"
          /\ UNCHANGED <<heap, bdpp_free_queue, madeBy, fgArg>>
       \/ /\ heap' = Append(heap, [create_rx_packet EXCEPT !.uhci_packet = "NULL"])
          /\ bdpp_free_queue' = Append(bdpp_free_queue, Len(heap) + 1)
          /\ madeBy' = Append(madeBy, "create_rx_packet")
          /\ fgArg' = fgArg + 1
          /\ pc' = pc
    /\ UNCHANGED <<bdpp_initialized, bdpp_tx_queue, bdpp_rx_queue, int_ena, transport,
                   fgOld, fgRes, fgAvail, fgEntry, building, appHeld, history, calls, polled>>

(* ------------------------------------------------------------------ *)
(* The application building a TX packet (packet.h)                     *)
(* ------------------------------------------------------------------ *)
\* The application creates its next TX packet, of either ownership class.
CreateTx ==
    /\ pc = "idle"
    /\ building = NULL
    /\ TxCreated + RxArmedTotal < MaxTraffic
    /\ \E a \in TxCreates :
          /\ heap' = Append(heap, IF a[1] = "app"
                                  THEN create_app_tx_packet(a[2], a[3], a[4])
                                  ELSE create_driver_tx_packet(a[2], a[3], a[4]))
          /\ madeBy' = Append(madeBy, IF a[1] = "app" THEN "create_app_tx_packet"
                                      ELSE "create_driver_tx_packet")
    /\ building' = Len(heap) + 1
    /\ UNCHANGED <<bdpp_initialized, queues, int_ena, transport, pc, locals, appHeld,
                   history>>
    /\ UNCHANGED <<calls, polled>>

\* The application appends the payload to the empty packet it is building.
AppendTx ==
    /\ pc = "idle"
    /\ building # NULL
    /\ get_actual_data_size(heap[building]) = 0
    /\ heap' = [heap EXCEPT ![building] = append_data_bytes(@, TxPayload, Len(TxPayload))]
    /\ UNCHANGED <<bdpp_initialized, queues, int_ena, transport, pc, locals, building,
                   appHeld, history>>
    /\ UNCHANGED study

(* ------------------------------------------------------------------ *)
(* bdpp_queue_tx_packet (bdp_protocol.cpp:74-80)                       *)
(* ------------------------------------------------------------------ *)
\* The packet is pushed twice.
tx_push_twice(queue, packet) == Append(Append(queue, packet), packet)

\* The packet is put at the head of the queue.
tx_push_front(queue, packet) == <<packet>> \o queue

\* Line 77: bdpp_tx_queue.push(packet).
tx_push(queue, packet) == Append(queue, packet)

\* The work-pending bit is not added.
tx_work_pending_forgotten(old_int) == old_int

\* The work-pending bit is assigned, not ORed in.
tx_work_pending_assigned(old_int) == {UHCI_INTR_OUT_EOF}

\* Line 78: old_int |= UHCI_INTR_OUT_EOF.
tx_work_pending(old_int) == old_int \cup {UHCI_INTR_OUT_EOF}

\* The call begins without masking the interrupt source.
QueueTxDisable_unmasked ==
    /\ pc = "idle"
    /\ building # NULL
    /\ fgArg' = building
    /\ fgEntry' = Snapshot
    /\ fgOld' = int_ena
    /\ pc' = "qtx_flags"
    /\ UNCHANGED <<bdpp_initialized, queues, heap, int_ena, transport, fgRes, fgAvail,
                   building, appHeld, history, study>>

\* Line 75: the call, and auto old_int = uhci_disable_interrupts().
QueueTxDisable ==
    /\ pc = "idle"
    /\ building # NULL
    /\ fgArg' = building
    /\ fgEntry' = Snapshot
    /\ fgOld' = int_ena
    /\ int_ena' = uhci_disable_interrupts
    /\ pc' = "qtx_flags"
    /\ UNCHANGED <<bdpp_initialized, queues, heap, transport, fgRes, fgAvail, building,
                   appHeld, history>>
    /\ UNCHANGED study

\* The packet is pushed without being marked READY.
QueueTxSetFlags_forgotten ==
    /\ pc = "qtx_flags"
    /\ pc' = "qtx_push"
    /\ UNCHANGED <<bdpp_initialized, queues, heap, int_ena, transport, locals, building,
                   appHeld, history, study>>

\* Line 76: packet->set_flags(BDPP_PKT_FLAG_READY).
QueueTxSetFlags ==
    /\ pc = "qtx_flags"
    /\ heap' = [heap EXCEPT ![fgArg] = set_flags(@, BDPP_PKT_FLAG_READY)]
    /\ pc' = "qtx_push"
    /\ UNCHANGED <<bdpp_initialized, queues, int_ena, transport, locals, building,
                   appHeld, history>>
    /\ UNCHANGED study

\* Line 77.
QueueTxPush ==
    /\ pc = "qtx_push"
    /\ bdpp_tx_queue' = tx_push(bdpp_tx_queue, fgArg)
    /\ pc' = "qtx_eof"
    /\ UNCHANGED <<bdpp_initialized, bdpp_rx_queue, bdpp_free_queue, heap, int_ena,
                   transport, locals, building, appHeld, history>>
    /\ UNCHANGED study

\* Line 78.
QueueTxWorkPending ==
    /\ pc = "qtx_eof"
    /\ fgOld' = tx_work_pending(fgOld)
    /\ pc' = "qtx_enable"
    /\ UNCHANGED <<bdpp_initialized, queues, heap, int_ena, transport, fgArg, fgRes,
                   fgAvail, fgEntry, building, appHeld, history>>
    /\ UNCHANGED study

\* Line 79: uhci_enable_interrupts(old_int), and the return.
QueueTxEnable ==
    /\ pc = "qtx_enable"
    /\ int_ena' = uhci_enable_interrupts(fgOld)
    /\ pc' = "idle"
    /\ building' = NULL
    /\ txSubmitted' = Append(txSubmitted, fgArg)
    /\ fgArg' = 0
    /\ fgOld' = {}
    /\ fgEntry' = NoEntry
    /\ UNCHANGED <<bdpp_initialized, queues, heap, transport, fgRes, fgAvail, appHeld,
                   txWire, rxCompleted, rxReturned>>
    /\ UNCHANGED study

(* ------------------------------------------------------------------ *)
(* bdpp_rx_packet_available (bdp_protocol.cpp:83-88)                   *)
(* ------------------------------------------------------------------ *)
\* The negation is missing.
rx_available_inverted(queue) == queue = << >>

\* The queue is not looked at: a packet is always reported.
rx_available_always(queue) == queue = queue

\* Line 85: !bdpp_rx_queue[stream_index].empty().
rx_available(queue) == queue # << >>

\* Line 84: the call, and auto old_int = uhci_disable_interrupts().
AvailDisable ==
    /\ pc = "idle"
    /\ \E stream_index \in PollStreams : fgArg' = stream_index
    /\ fgEntry' = Snapshot
    /\ fgOld' = int_ena
    /\ int_ena' = uhci_disable_interrupts
    /\ pc' = "avail_read"
    /\ UNCHANGED <<bdpp_initialized, queues, heap, transport, fgRes, fgAvail, building,
                   appHeld, history>>
    /\ UNCHANGED study

\* Line 85.
AvailRead ==
    /\ pc = "avail_read"
    /\ fgAvail' = rx_available(bdpp_rx_queue[fgArg])
    /\ pc' = "avail_enable"
    /\ UNCHANGED <<bdpp_initialized, queues, heap, int_ena, transport, fgArg, fgOld,
                   fgRes, fgEntry, building, appHeld, history>>
    /\ UNCHANGED study

\* Lines 86-87: uhci_enable_interrupts(old_int), and the return of available.
AvailEnable ==
    /\ pc = "avail_enable"
    /\ int_ena' = uhci_enable_interrupts(fgOld)
    /\ pc' = "idle"
    /\ fgArg' = 0
    /\ fgOld' = {}
    /\ fgAvail' = FALSE
    /\ fgEntry' = NoEntry
    /\ UNCHANGED <<bdpp_initialized, queues, heap, transport, fgRes, building, appHeld,
                   history>>
    /\ polled' = IF fgAvail THEN polled \cup {fgArg} ELSE polled \ {fgArg}
    /\ UNCHANGED <<madeBy, calls>>

(* ------------------------------------------------------------------ *)
(* bdpp_get_rx_packet (bdp_protocol.cpp:91-101)                        *)
(* ------------------------------------------------------------------ *)
\* The local packet is left uninitialised and holds a stale pointer.
get_rx_packet_local_stale == Len(heap)

\* Line 92: Packet* packet = NULL.
get_rx_packet_local == NULL

\* The queue of another stream is used.
rx_queue_index_shifted(stream_index) == (stream_index + 3) % BDPP_MAX_STREAMS

\* The queue three streams below is used.
rx_queue_index_below(stream_index) ==
    (stream_index + BDPP_MAX_STREAMS - 3) % BDPP_MAX_STREAMS

\* Line 94: the queue the call works on.
rx_queue_index(stream_index) == stream_index

\* The newest packet is taken: queue->back().
rx_back(queue) == queue[Len(queue)]

\* Line 96: queue->front().
rx_front(queue) == Head(queue)

\* The head is returned but left in the queue.
rx_pop_forgotten(queue) == queue

\* The newest packet is removed instead of the oldest.
rx_pop_newest(queue) == SubSeq(queue, 1, Len(queue) - 1)

\* Line 97: queue->pop().
rx_pop(queue) == Tail(queue)

\* Lines 92-93: the call, packet = NULL, old_int = uhci_disable_interrupts().
GetRxDisable ==
    /\ pc = "idle"
    /\ \E stream_index \in PollStreams : fgArg' = stream_index
    /\ fgRes' = get_rx_packet_local
    /\ fgEntry' = Snapshot
    /\ fgOld' = int_ena
    /\ int_ena' = uhci_disable_interrupts
    /\ pc' = "get_body"
    /\ UNCHANGED <<bdpp_initialized, queues, heap, transport, fgAvail, building, appHeld,
                   history>>
    /\ UNCHANGED study

\* Lines 94-98.
GetRxBody ==
    /\ pc = "get_body"
    /\ LET q == rx_queue_index(fgArg) IN
       IF bdpp_rx_queue[q] # << >>
       THEN /\ fgRes' = rx_front(bdpp_rx_queue[q])
            /\ bdpp_rx_queue' = [bdpp_rx_queue EXCEPT ![q] = rx_pop(@)]
       ELSE UNCHANGED <<fgRes, bdpp_rx_queue>>
    /\ pc' = "get_enable"
    /\ UNCHANGED <<bdpp_initialized, bdpp_tx_queue, bdpp_free_queue, heap, int_ena,
                   transport, fgArg, fgOld, fgAvail, fgEntry, building, appHeld, history>>
    /\ UNCHANGED study

\* Lines 99-100: uhci_enable_interrupts(old_int), and the return of packet.
GetRxEnable ==
    /\ pc = "get_enable"
    /\ int_ena' = uhci_enable_interrupts(fgOld)
    /\ pc' = "idle"
    /\ appHeld' = IF fgRes = NULL THEN appHeld ELSE appHeld \cup {fgRes}
    /\ rxReturned' = IF fgRes = NULL THEN rxReturned
                     ELSE [rxReturned EXCEPT ![fgArg] = Append(@, fgRes)]
    /\ fgArg' = 0
    /\ fgOld' = {}
    /\ fgRes' = NULL
    /\ fgEntry' = NoEntry
    /\ UNCHANGED <<bdpp_initialized, queues, heap, transport, fgAvail, building,
                   txSubmitted, txWire, rxCompleted>>
    /\ polled' = polled \ {fgArg}
    /\ UNCHANGED <<madeBy, calls>>

(* ------------------------------------------------------------------ *)
(* recycle: the application returns a consumed RX packet to the pool   *)
(* ------------------------------------------------------------------ *)
\* The reset state of a pooled RX packet: length 0, flags as created.
recycle_reset(p) ==
    [p EXCEPT !.act_size = 0, !.data = << >>, !.flags = create_rx_packet.flags]

RecycleDisable ==
    /\ pc = "idle"
    /\ \E packet \in appHeld : fgArg' = packet
    /\ fgEntry' = Snapshot
    /\ fgOld' = int_ena
    /\ int_ena' = uhci_disable_interrupts
    /\ pc' = "recycle_body"
    /\ UNCHANGED <<bdpp_initialized, queues, heap, transport, fgRes, fgAvail, building,
                   appHeld, history>>
    /\ UNCHANGED study

RecycleBody ==
    /\ pc = "recycle_body"
    /\ heap' = [heap EXCEPT ![fgArg] = recycle_reset(@)]
    /\ bdpp_free_queue' = Append(bdpp_free_queue, fgArg)
    /\ appHeld' = appHeld \ {fgArg}
    /\ pc' = "recycle_enable"
    /\ UNCHANGED <<bdpp_initialized, bdpp_tx_queue, bdpp_rx_queue, int_ena, transport,
                   locals, building, history>>
    /\ UNCHANGED study

RecycleEnable ==
    /\ pc = "recycle_enable"
    /\ int_ena' = uhci_enable_interrupts(fgOld)
    /\ pc' = "idle"
    /\ fgArg' = 0
    /\ fgOld' = {}
    /\ fgEntry' = NoEntry
    /\ UNCHANGED <<bdpp_initialized, queues, heap, transport, fgRes, fgAvail, building,
                   appHeld, history>>
    /\ UNCHANGED study

(* ------------------------------------------------------------------ *)
(* Interrupt context of the transport                                  *)
(* ------------------------------------------------------------------ *)
\* The header and payload the DMA engine leaves in a received packet.
rx_fill(p, stream, len) ==
    [p EXCEPT !.flags = BitOr(p.flags, BitOr(BDPP_PKT_FLAG_COMMAND,
                                             BitOr(BDPP_PKT_FLAG_FIRST, BDPP_PKT_FLAG_LAST))),
              !.indexes = BitOr(0, stream * 16) % 256,
              !.act_size = len,
              !.data = [i \in 1..len |-> i]]

\* arm: the next free buffer is handed to the transport for reception.
RxArm ==
    /\ UHCI_INTR_IN \in int_ena
    /\ bdpp_free_queue # << >>
    /\ Len(armed) < BDPP_MAX_RX_PACKETS
    /\ TxCreated + RxArmedTotal < MaxTraffic
    /\ armed' = Append(armed, Head(bdpp_free_queue))
    /\ bdpp_free_queue' = Tail(bdpp_free_queue)
    /\ UNCHANGED <<bdpp_initialized, bdpp_tx_queue, bdpp_rx_queue, heap, int_ena,
                   txInFlight, pc, locals, building, appHeld, history>>
    /\ UNCHANGED study

\* on_rx_complete(stream, packet): a fully received packet gets {ready, done}
\* and is pushed to RxQueue[stream].
RxComplete ==
    /\ UHCI_INTR_IN \in int_ena
    /\ armed # << >>
    /\ \E frame \in RxFrames :
          LET packet == Head(armed)
              stream == frame[1]
              len    == frame[2] IN
          /\ heap' = [heap EXCEPT ![packet] =
                         set_flags(rx_fill(@, stream, len),
                                   BitOr(BDPP_PKT_FLAG_READY, BDPP_PKT_FLAG_DONE))]
          /\ bdpp_rx_queue' = [bdpp_rx_queue EXCEPT ![stream] = Append(@, packet)]
          /\ rxCompleted' = [rxCompleted EXCEPT ![stream] = Append(@, packet)]
    /\ armed' = Tail(armed)
    /\ UNCHANGED <<bdpp_initialized, bdpp_tx_queue, bdpp_free_queue, int_ena, txInFlight,
                   pc, locals, building, appHeld, txSubmitted, txWire, rxReturned>>
    /\ UNCHANGED study

\* on_tx_drain(): pops TxQueue and hands the buffer to the DMA engine.
TxDrain ==
    /\ UHCI_INTR_OUT_EOF \in int_ena
    /\ bdpp_tx_queue # << >>
    /\ txInFlight = NULL
    /\ txInFlight' = Head(bdpp_tx_queue)
    /\ bdpp_tx_queue' = Tail(bdpp_tx_queue)
    /\ txWire' = Append(txWire, Head(bdpp_tx_queue))
    /\ UNCHANGED <<bdpp_initialized, bdpp_rx_queue, bdpp_free_queue, heap, int_ena, armed,
                   pc, locals, building, appHeld, txSubmitted, rxCompleted, rxReturned>>
    /\ UNCHANGED study

\* The send completes: the packet is marked DONE.
TxComplete ==
    /\ UHCI_INTR_OUT_EOF \in int_ena
    /\ txInFlight # NULL
    /\ heap' = [heap EXCEPT ![txInFlight] = set_flags(@, BDPP_PKT_FLAG_DONE)]
    /\ txInFlight' = NULL
    /\ UNCHANGED <<bdpp_initialized, queues, int_ena, armed, pc, locals, building,
                   appHeld, history>>
    /\ UNCHANGED study

(* ------------------------------------------------------------------ *)
(* Specification                                                       *)
(* ------------------------------------------------------------------ *)
Foreground ==
    \/ InitCall \/ InitFill \/ InitHw \/ InitFlag
    \/ CreateTx \/ AppendTx
    \/ QueueTxDisable \/ QueueTxSetFlags \/ QueueTxPush \/ QueueTxWorkPending
    \/ QueueTxEnable
    \/ AvailDisable \/ AvailRead \/ AvailEnable
    \/ GetRxDisable \/ GetRxBody \/ GetRxEnable
    \/ RecycleDisable \/ RecycleBody \/ RecycleEnable

Interrupt == RxArm \/ RxComplete \/ TxDrain \/ TxComplete

Next == Foreground \/ Interrupt

Spec == Init /\ [][Next]_vars

\* The transmit path on its own: the application initialises, builds and queues
\* TX packets and polls for received ones, and the transport drains the TxQueue;
\* no RX buffer is armed.
TxForeground ==
    \/ InitCall \/ InitFill \/ InitHw \/ InitFlag
    \/ CreateTx \/ AppendTx
    \/ QueueTxDisable \/ QueueTxSetFlags \/ QueueTxPush \/ QueueTxWorkPending
    \/ QueueTxEnable
    \/ AvailDisable \/ AvailRead \/ AvailEnable
    \/ GetRxDisable \/ GetRxBody \/ GetRxEnable

TxInterrupt == TxDrain \/ TxComplete

TxNext == TxForeground \/ TxInterrupt

\* The steps of a call that has begun: sequential code runs on to its return.
CallInProgress ==
    \/ InitFill \/ InitHw \/ InitFlag
    \/ QueueTxSetFlags \/ QueueTxPush \/ QueueTxWorkPending \/ QueueTxEnable
    \/ AvailRead \/ AvailEnable
    \/ GetRxBody \/ GetRxEnable

\* The foreground finishes every call it began, and a pending transmit interrupt
\* is taken whenever the foreground unmasks it again.
FairSpec ==
    /\ Init /\ [][TxNext]_vars
    /\ WF_vars(CallInProgress)
    /\ SF_vars(TxDrain)
    /\ SF_vars(TxComplete)

\* The BDPP core when one allocation of the pool fill can fail.
AllocSpec == Init /\ [][Next \/ InitFillNoMemory]_vars

(* ------------------------------------------------------------------ *)
(* The API called under any interrupt-enable mask                      *)
(* ------------------------------------------------------------------ *)
\* The masks a caller may have in force when it calls the API: the transport's
\* receive and transmit bits, each enabled or not (none inside a critical
\* section of the caller's own).
EntryMasks == SUBSET {UHCI_INTR_IN, UHCI_INTR_OUT_EOF}

\* The state bdpp_initialize_driver() has left, idle, under the given mask.
Initialized(mask) ==
    /\ bdpp_initialized = TRUE
    /\ bdpp_tx_queue = << >>
    /\ bdpp_rx_queue = [s \in Streams |-> << >>]
    /\ bdpp_free_queue = [i \in RxIds |-> i]
    /\ heap = [i \in RxIds |-> create_rx_packet]
    /\ int_ena = mask
    /\ armed = << >>
    /\ txInFlight = NULL
    /\ pc = "idle"
    /\ fgArg = 0
    /\ fgOld = {}
    /\ fgRes = NULL
    /\ fgAvail = FALSE
    /\ fgEntry = NoEntry
    /\ building = NULL
    /\ appHeld = {}
    /\ txSubmitted = << >>
    /\ txWire = << >>
    /\ rxCompleted = [s \in Streams |-> << >>]
    /\ rxReturned = [s \in Streams |-> << >>]
    /\ madeBy = [i \in RxIds |-> "create_rx_packet"]
    /\ calls = << >>
    /\ polled = {}

MaskInit == \E mask \in EntryMasks : Initialized(mask)

\* The calls of an initialised application.
Application ==
    \/ CreateTx \/ AppendTx
    \/ QueueTxDisable \/ QueueTxSetFlags \/ QueueTxPush \/ QueueTxWorkPending
    \/ QueueTxEnable
    \/ AvailDisable \/ AvailRead \/ AvailEnable
    \/ GetRxDisable \/ GetRxBody \/ GetRxEnable
    \/ RecycleDisable \/ RecycleBody \/ RecycleEnable

MaskNext == Application \/ Interrupt

MaskSpec == MaskInit /\ [][MaskNext]_vars

(* ------------------------------------------------------------------ *)
(* class Packet used on its own (packet.h:57-137)                      *)
(* ------------------------------------------------------------------ *)
\* Every value of a uint8_t argument.
Bytes == 0..255
\* The (packet_index, stream_index) pairs a packet under study is created with.
StudyIndexes == {<<1, 3>>}
\* The masks set_flags and clear_flags are called with: none, each flag, each
\* sub-field, all.
FlagMasks ==
    {0, BDPP_PKT_FLAG_COMMAND, BDPP_PKT_FLAG_RESPONSE, BDPP_PKT_FLAG_FIRST,
     BDPP_PKT_FLAG_LAST, BDPP_PKT_FLAG_READY, BDPP_PKT_FLAG_DONE, BDPP_PKT_FLAG_FOR_RX,
     BDPP_PKT_FLAG_APP_OWNED, BDPP_PKT_FLAG_USAGE_BITS, BDPP_PKT_FLAG_PROCESS_BITS,
     BitOr(BDPP_PKT_FLAG_USAGE_BITS, BDPP_PKT_FLAG_PROCESS_BITS)}

\* What stays as it is while one packet is studied on its own.
protocol == <<bdpp_initialized, queues, int_ena, transport, locals, building, appHeld,
              history, polled>>

\* Instead of running the protocol, the program creates one packet with any of
\* the three factories, for every value of the flags argument.
PktCreate ==
    /\ pc = "start"
    /\ heap = << >>
    /\ \/ \E flags \in Bytes, ix \in StudyIndexes :
             /\ heap' = <<create_driver_tx_packet(flags, ix[1], ix[2])>>
             /\ madeBy' = <<"create_driver_tx_packet">>
             /\ calls' = << <<"create_driver_tx_packet", flags, ix[1], ix[2]>> >>
       \/ \E flags \in Bytes, ix \in StudyIndexes :
             /\ heap' = <<create_app_tx_packet(flags, ix[1], ix[2])>>
             /\ madeBy' = <<"create_app_tx_packet">>
             /\ calls' = << <<"create_app_tx_packet", flags, ix[1], ix[2]>> >>
       \/ /\ heap' = <<create_rx_packet>>
          /\ madeBy' = <<"create_rx_packet">>
          /\ calls' = << <<"create_rx_packet">> >>
    /\ pc' = "packet"
    /\ UNCHANGED protocol

\* packet->set_flags(mask).
PktSetFlags ==
    /\ pc = "packet"
    /\ \E mask \in FlagMasks :
          /\ heap' = [heap EXCEPT ![1] = set_flags(@, mask)]
          /\ calls' = << <<"set_flags", mask>> >>
    /\ UNCHANGED <<protocol, pc, madeBy>>

\* packet->clear_flags(mask).
PktClearFlags ==
    /\ pc = "packet"
    /\ \E mask \in FlagMasks :
          /\ heap' = [heap EXCEPT ![1] = clear_flags(@, mask)]
          /\ calls' = << <<"clear_flags", mask>> >>
    /\ UNCHANGED <<protocol, pc, madeBy>>

\* The first append to the empty packet, in either form.
PktAppend ==
    /\ pc = "packet"
    /\ get_actual_data_size(heap[1]) = 0
    /\ \/ /\ heap' = [heap EXCEPT ![1] = append_data(@, Head(TxPayload))]
          /\ calls' = << <<"append_data", Head(TxPayload)>> >>
       \/ /\ heap' = [heap EXCEPT ![1] = append_data_bytes(@, TxPayload, Len(TxPayload))]
          /\ calls' = << <<"append_data_bytes", Len(TxPayload)>> >>
    /\ UNCHANGED <<protocol, pc, madeBy>>

PacketNext == PktCreate \/ PktSetFlags \/ PktClearFlags \/ PktAppend

\* The program either runs the protocol or studies one packet.
PacketSpec == Init /\ [][Next \/ PacketNext]_vars

(* ------------------------------------------------------------------ *)
(* A packet filled to its capacity (packet.h:117, 129-137)             *)
(* ------------------------------------------------------------------ *)
\* The bytes a filling caller appends: one value throughout.
FillBlock == [i \in 1..Len(TxPayload) |-> Head(TxPayload)]

\* The program creates one packet, of either ownership class or for reception.
FillCreate ==
    /\ pc = "start"
    /\ heap = << >>
    /\ \/ \E a \in TxCreates :
             /\ heap' = <<IF a[1] = "app"
                          THEN create_app_tx_packet(a[2], a[3], a[4])
                          ELSE create_driver_tx_packet(a[2], a[3], a[4])>>
             /\ madeBy' = <<IF a[1] = "app" THEN "create_app_tx_packet"
                            ELSE "create_driver_tx_packet">>
       \/ /\ heap' = <<create_rx_packet>>
          /\ madeBy' = <<"create_rx_packet">>
    /\ calls' = << >>
    /\ pc' = "packet"
    /\ UNCHANGED protocol

\* if (!packet->is_full()) packet->append_data(data_byte).
FillByte ==
    /\ pc = "packet"
    /\ ~is_full(heap[1])
    /\ heap' = [heap EXCEPT ![1] = append_data(@, Head(FillBlock))]
    /\ calls' = << <<"append_data", Head(FillBlock)>> >>
    /\ UNCHANGED <<protocol, pc, madeBy>>

\* if (!packet->is_full()) packet->append_data(data_bytes, count).
FillBytes ==
    /\ pc = "packet"
    /\ ~is_full(heap[1])
    /\ \E count \in 1..Len(FillBlock) :
          /\ heap' = [heap EXCEPT ![1] = append_data_bytes(@, FillBlock, count)]
          /\ calls' = << <<"append_data_bytes", count>> >>
    /\ UNCHANGED <<protocol, pc, madeBy>>

\* Single bytes only.
FillSpec == Init /\ [][FillCreate \/ FillByte]_vars

\* Single bytes and blocks.
BlockFillSpec == Init /\ [][FillCreate \/ FillByte \/ FillBytes]_vars

(* ------------------------------------------------------------------ *)
(* set_flags / clear_flags on any flags byte (packet.h:122-126)        *)
(* ------------------------------------------------------------------ *)
\* A packet whose flags byte has any value, as calls of set_flags can make it,
\* and any mask; the packet as it is now is kept in fgEntry, the mask in fgArg.
FlagsInit ==
    /\ \E flags \in Bytes :
          /\ heap = <<set_flags(create_driver_tx_packet(0, 0, 0), flags)>>
          /\ fgEntry = [NoEntry EXCEPT !.heap = <<set_flags(create_driver_tx_packet(0, 0, 0), flags)>>]
    /\ fgArg \in Bytes
    /\ madeBy = <<"create_driver_tx_packet">>
    /\ calls = << >>
    /\ polled = {}
    /\ pc = "packet"
    /\ bdpp_initialized = FALSE
    /\ bdpp_tx_queue = << >>
    /\ bdpp_rx_queue = [s \in Streams |-> << >>]
    /\ bdpp_free_queue = << >>
    /\ int_ena = {}
    /\ armed = << >>
    /\ txInFlight = NULL
    /\ fgOld = {}
    /\ fgRes = NULL
    /\ fgAvail = FALSE
    /\ building = NULL
    /\ appHeld = {}
    /\ txSubmitted = << >>
    /\ txWire = << >>
    /\ rxCompleted = [s \in Streams |-> << >>]
    /\ rxReturned = [s \in Streams |-> << >>]

\* packet->set_flags(mask); the call is noted with the flags byte it left.
FlagsSet ==
    /\ pc = "packet"
    /\ Len(calls) < MaxCalls
    /\ heap' = [heap EXCEPT ![1] = set_flags(@, fgArg)]
    /\ calls' = Append(calls, <<"set_flags", fgArg, get_flags(heap'[1])>>)
    /\ UNCHANGED <<protocol, pc, madeBy>>

\* packet->clear_flags(mask); the call is noted with the flags byte it left.
FlagsClear ==
    /\ pc = "packet"
    /\ Len(calls) < MaxCalls
    /\ heap' = [heap EXCEPT ![1] = clear_flags(@, fgArg)]
    /\ calls' = Append(calls, <<"clear_flags", fgArg, get_flags(heap'[1])>>)
    /\ UNCHANGED <<protocol, pc, madeBy>>

FlagsSpec == FlagsInit /\ [][FlagsSet \/ FlagsClear]_vars

(* ------------------------------------------------------------------ *)
(* The packed indexes (packet.h:72-80, 99-103)                         *)
(* ------------------------------------------------------------------ *)
\* The values of a 4-bit index.
Nibbles == 0..(BDPP_MAX_STREAMS - 1)

\* The program creates one TX packet, of either ownership class, with any
\* packet index and any stream index.
IndexCreate ==
    /\ pc = "start"
    /\ heap = << >>
    /\ \E a \in TxCreates, packet_index \in Nibbles, stream_index \in Nibbles :
          /\ heap' = <<IF a[1] = "app"
                       THEN create_app_tx_packet(a[2], packet_index, stream_index)
                       ELSE create_driver_tx_packet(a[2], packet_index, stream_index)>>
          /\ madeBy' = <<IF a[1] = "app" THEN "create_app_tx_packet"
                         ELSE "create_driver_tx_packet">>
          /\ calls' = << <<madeBy'[1], a[2], packet_index, stream_index>> >>
    /\ pc' = "packet"
    /\ UNCHANGED protocol

IndexSpec == Init /\ [][IndexCreate]_vars

(* ------------------------------------------------------------------ *)
(* The RX calls with any uint8_t stream_index (bdp_protocol.cpp:83-101) *)
(* ------------------------------------------------------------------ *)
\* Stream indexes past the end of bdpp_rx_queue: the first one and the last.
WildStreams == {BDPP_MAX_STREAMS, BitOr(BDPP_PKT_FLAG_USAGE_BITS, BDPP_PKT_FLAG_PROCESS_BITS)}

\* Line 84 with a stream_index of 16 or more: nothing tests the argument.
AvailDisableWild ==
    /\ pc = "idle"
    /\ \E stream_index \in WildStreams : fgArg' = stream_index
    /\ fgEntry' = Snapshot
    /\ fgOld' = int_ena
    /\ int_ena' = uhci_disable_interrupts
    /\ pc' = "avail_wild"
    /\ UNCHANGED <<bdpp_initialized, queues, heap, transport, fgRes, fgAvail, building,
                   appHeld, history, study>>

\* Line 85 reads past the end of the array: whatever lies there looks like an
\* empty queue or like one with entries.
AvailReadWild ==
    /\ pc = "avail_wild"
    /\ fgAvail' \in BOOLEAN
    /\ pc' = "avail_wild_enable"
    /\ UNCHANGED <<bdpp_initialized, queues, heap, int_ena, transport, fgArg, fgOld,
                   fgRes, fgEntry, building, appHeld, history, study>>

\* Lines 86-87.
AvailEnableWild ==
    /\ pc = "avail_wild_enable"
    /\ int_ena' = uhci_enable_interrupts(fgOld)
    /\ pc' = "idle"
    /\ fgArg' = 0
    /\ fgOld' = {}
    /\ fgAvail' = FALSE
    /\ fgEntry' = NoEntry
    /\ UNCHANGED <<bdpp_initialized, queues, heap, transport, fgRes, building, appHeld,
                   history, study>>

\* Lines 92-93 with a stream_index of 16 or more.
GetRxDisableWild ==
    /\ pc = "idle"
    /\ \E stream_index \in WildStreams : fgArg' = stream_index
    /\ fgRes' = get_rx_packet_local
    /\ fgEntry' = Snapshot
    /\ fgOld' = int_ena
    /\ int_ena' = uhci_disable_interrupts
    /\ pc' = "get_wild"
    /\ UNCHANGED <<bdpp_initialized, queues, heap, transport, fgAvail, building, appHeld,
                   history, study>>

\* What front() yields from memory that holds no queue: not a packet of the pool.
WildPointer == "wild"

\* Lines 94-98 work on the memory past the end of the array: it looks like an
\* empty queue, or front() yields whatever lies there and pop() rewrites that
\* memory, or the access traps.
GetRxBodyWild ==
    /\ pc = "get_wild"
    /\ \/ /\ pc' = "get_wild_enable"
          /\ UNCHANGED fgRes
       \/ /\ fgRes' = WildPointer
          /\ pc' = "get_wild_enable"
       \/ /\ pc' = "panic"
          /\ UNCHANGED fgRes
    /\ UNCHANGED <<bdpp_initialized, queues, heap, int_ena, transport, fgArg, fgOld,
                   fgAvail, fgEntry, building, appHeld, history, study>>

\* Lines 99-100.
GetRxEnableWild ==
    /\ pc = "get_wild_enable"
    /\ int_ena' = uhci_enable_interrupts(fgOld)
    /\ pc' = "idle"
    /\ fgArg' = 0
    /\ fgOld' = {}
    /\ fgRes' = NULL
    /\ fgEntry' = NoEntry
    /\ UNCHANGED <<bdpp_initialized, queues, heap, transport, fgAvail, building, appHeld,
                   history, study>>

WildCalls ==
    \/ AvailDisableWild \/ AvailReadWild \/ AvailEnableWild
    \/ GetRxDisableWild \/ GetRxBodyWild \/ GetRxEnableWild

\* The BDPP core called with any stream_index.
StreamSpec == Init /\ [][Next \/ WildCalls]_vars

(* ------------------------------------------------------------------ *)
(* Properties                                                          *)
(* ------------------------------------------------------------------ *)
\* RX buffers queued in some RxQueue.
RxQueued == SumLen(bdpp_rx_queue, BDPP_MAX_STREAMS)

\* The RX packet get_rx_packet has popped and is about to return.
RxInReturn == IF pc = "get_enable" /\ fgRes # NULL THEN <<fgRes>> ELSE << >>

\* RX buffers in the hands of the application.
RxInHand == Cardinality(appHeld) + Len(RxInReturn)

PoolFilled == pc \notin {"start", "init_fill"}

\* C1 as stated: once the pool is filled, the RX buffers in FreeQueue, armed and
\* queued in the RxQueues number BDPP_MAX_APP_PACKETS in every state.
C1_Original ==
    PoolFilled => Len(bdpp_free_queue) + Len(armed) + RxQueued = BDPP_MAX_APP_PACKETS

\* C1 amended: once the pool is filled, the RX buffers in FreeQueue, armed, queued
\* in the RxQueues and dequeued by the application but not yet recycled number
\* BDPP_MAX_APP_PACKETS in every state.
C1_Conservation ==
    PoolFilled =>
        Len(bdpp_free_queue) + Len(armed) + RxQueued + RxInHand = BDPP_MAX_APP_PACKETS

\* A buffer went round the loop (it is back at the tail of FreeQueue) while a
\* second one is held by the application and a third is queued.
C1_Witness ==
    /\ bdpp_free_queue # << >>
    /\ bdpp_free_queue[Len(bdpp_free_queue)] = 1
    /\ appHeld # {}
    /\ RxQueued > 0

\* Enqueues whose push is done: the calls that returned, and the running one
\* from its push on.
TxPushed ==
    IF pc \in {"qtx_eof", "qtx_enable"} THEN Append(txSubmitted, fgArg) ELSE txSubmitted

\* C2: the TxQueue length is the number of enqueues minus the number of drains
\* in every state, the enqueued packets are exactly the drained ones plus the
\* queued ones, none is drained twice, and the queue grows only in
\* queue_tx_packet, by exactly one per call.
C2_TxLength ==
    /\ [](/\ Len(bdpp_tx_queue) = Len(TxPushed) - Len(txWire)
          /\ Len(txWire) <= Len(TxPushed)
          /\ Range(TxPushed) = Range(txWire) \cup Range(bdpp_tx_queue)
          /\ Cardinality(Range(txWire)) = Len(txWire))
    /\ [][/\ Len(bdpp_tx_queue') > Len(bdpp_tx_queue) =>
                pc = "qtx_push" /\ Len(bdpp_tx_queue') = Len(bdpp_tx_queue) + 1
          /\ (pc = "qtx_enable" /\ pc' = "idle") =>
                Len(bdpp_tx_queue') = Len(fgEntry.tx) + 1]_vars

\* Two enqueues were interleaved with a drain.
C2_Witness ==
    /\ Len(txSubmitted) = 2
    /\ Len(txWire) = 1
    /\ Len(bdpp_tx_queue) = 1

\* C3: the packets drained so far followed by the queued ones are the packets in
\* the order their queue_tx_packet calls completed, whatever their streams.
C3_TxFifo == txWire \o bdpp_tx_queue = TxPushed

\* Two packets of different streams went to the wire in submission order.
C3_Witness ==
    /\ Len(txWire) = 2
    /\ txWire = txSubmitted
    /\ get_stream_index(heap[txWire[1]]) > get_stream_index(heap[txWire[2]])

\* C4: for every stream, the packets get_rx_packet returned followed by the
\* queued ones are the packets in the order their reception completed.
C4_RxFifo ==
    \A s \in Streams :
        rxReturned[s] \o (IF fgArg = s THEN RxInReturn ELSE << >>) \o bdpp_rx_queue[s]
            = rxCompleted[s]

\* get_rx_packet on a queue holding two packets is returning the older one.
C4_Witness ==
    /\ pc = "get_enable"
    /\ Len(fgEntry.rx[fgArg]) = 2
    /\ fgRes = fgEntry.rx[fgArg][1]
    /\ rxCompleted[fgArg] = fgEntry.rx[fgArg]

GetRxReturns == pc = "get_enable" /\ pc' = "idle"

\* C5: get_rx_packet(s) returns only a packet completed for stream s and leaves
\* the RxQueues of the other streams, the TxQueue and the FreeQueue as they
\* were; a completion for stream s leaves rx_packet_available(t) as it was for
\* every other stream t.
C5_StreamIsolation ==
    [][/\ GetRxReturns =>
            /\ fgRes # NULL =>
                  /\ fgRes \in Range(rxCompleted[fgArg])
                  /\ get_stream_index(heap[fgRes]) = fgArg
            /\ \A t \in Streams \ {fgArg} : bdpp_rx_queue'[t] = fgEntry.rx[t]
            /\ bdpp_tx_queue' = fgEntry.tx
            /\ bdpp_free_queue' = fgEntry.free
       /\ \A s \in Streams :
            rxCompleted'[s] # rxCompleted[s] =>
                \A t \in Streams \ {s} :
                    rx_available(bdpp_rx_queue'[t]) = rx_available(bdpp_rx_queue[t])]_vars

\* Receptions completed for stream 2 then stream 5; get_rx_packet(2) returned the
\* first and get_rx_packet(5) the second, with nothing on any other stream.
C5_Witness ==
    /\ rxReturned[2] = <<1>>
    /\ rxReturned[5] = <<2>>
    /\ \A t \in Streams \ {2, 5} : rxCompleted[t] = << >>

QueueTxReturns == pc = "qtx_enable" /\ pc' = "idle"

\* C6: queue_tx_packet(p) always runs to its return, and on return the TxQueue is
\* the queue at entry with p appended, p's flags are its flags at entry with READY
\* set, p's indexes, capacity, length and payload are as at entry, and every other
\* packet, every RxQueue and the FreeQueue are as at entry.
C6_QueueTxEffect ==
    /\ [](pc \in {"qtx_flags", "qtx_push", "qtx_eof", "qtx_enable"} =>
             ENABLED (QueueTxSetFlags \/ QueueTxPush \/ QueueTxWorkPending
                      \/ QueueTxEnable))
    /\ [][QueueTxReturns =>
            /\ bdpp_tx_queue' = Append(fgEntry.tx, fgArg)
            /\ heap'[fgArg].flags = BitOr(fgEntry.heap[fgArg].flags, BDPP_PKT_FLAG_READY)
            /\ is_flag_set(heap'[fgArg], BDPP_PKT_FLAG_READY)
            /\ heap'[fgArg].indexes = fgEntry.heap[fgArg].indexes
            /\ get_stream_index(heap'[fgArg]) = get_stream_index(fgEntry.heap[fgArg])
            /\ get_packet_index(heap'[fgArg]) = get_packet_index(fgEntry.heap[fgArg])
            /\ heap'[fgArg].max_size = fgEntry.heap[fgArg].max_size
            /\ heap'[fgArg].act_size = fgEntry.heap[fgArg].act_size
            /\ heap'[fgArg].data = fgEntry.heap[fgArg].data
            /\ \A q \in DOMAIN heap \ {fgArg} : heap'[q] = fgEntry.heap[q]
            /\ bdpp_rx_queue' = fgEntry.rx
            /\ bdpp_free_queue' = fgEntry.free]_vars

\* The scenario of the specification: an app-owned COMMAND packet of slot 1 and
\* stream 3 holding three bytes was queued on an empty TxQueue.
C6_Witness ==
    /\ pc = "idle"
    /\ bdpp_tx_queue = <<BDPP_MAX_APP_PACKETS + 1>>
    /\ LET p == heap[BDPP_MAX_APP_PACKETS + 1] IN
       /\ p.flags = BDPP_PKT_FLAG_APP_OWNED + BDPP_PKT_FLAG_READY + BDPP_PKT_FLAG_COMMAND
       /\ get_stream_index(p) = 3
       /\ get_packet_index(p) = 1
       /\ get_actual_data_size(p) = 3
       /\ p.data = <<1, 2, 3>>

\* C7: get_rx_packet(s) called while RxQueue[s] is empty runs to its return,
\* returns NULL and leaves every queue and every packet as at entry, with the
\* foreground back in its normal state.
C7_GetRxEmpty ==
    /\ [](pc \in {"get_body", "get_enable"} => ENABLED (GetRxBody \/ GetRxEnable))
    /\ [][(GetRxReturns /\ fgEntry.rx[fgArg] = << >>) =>
            /\ fgRes = NULL
            /\ bdpp_tx_queue' = fgEntry.tx
            /\ bdpp_rx_queue' = fgEntry.rx
            /\ bdpp_free_queue' = fgEntry.free
            /\ heap' = fgEntry.heap
            /\ appHeld' = appHeld
            /\ bdpp_initialized' = bdpp_initialized]_vars

\* get_rx_packet is returning from an empty queue while another stream has a
\* packet queued.
C7_Witness ==
    /\ pc = "get_enable"
    /\ fgEntry.rx[fgArg] = << >>
    /\ fgRes = NULL
    /\ RxQueued > 0

InitReturns == pc = "init_flag" /\ pc' = "idle"

\* No reception has completed.
NoRxCompleted == \A s \in Streams : rxCompleted[s] = << >>

\* C8 as stated: when initialize() returns before any reception completes, no
\* stream has a packet available, the TxQueue is empty, is_initialized() is true
\* and the FreeQueue holds BDPP_MAX_APP_PACKETS packets.
C8_Original ==
    [][(InitReturns /\ NoRxCompleted') =>
            /\ \A s \in Streams : ~rx_available(bdpp_rx_queue'[s])
            /\ bdpp_tx_queue' = << >>
            /\ bdpp_is_initialized'
            /\ Len(bdpp_free_queue') = BDPP_MAX_APP_PACKETS]_vars

\* C8 amended: the FreeQueue holds BDPP_MAX_APP_PACKETS packets when the pool
\* fill ends and until the transport arms one; when initialize() returns before
\* any reception completes, no stream has a packet available, the TxQueue is
\* empty, is_initialized() is true, and the FreeQueue and the buffers the
\* transport has armed since DMA reception started hold BDPP_MAX_APP_PACKETS
\* packets together.
C8_AfterInitialize ==
    /\ [](pc = "init_hw" => Len(bdpp_free_queue) = BDPP_MAX_APP_PACKETS)
    /\ []((PoolFilled /\ armed = << >> /\ NoRxCompleted) =>
             Len(bdpp_free_queue) = BDPP_MAX_APP_PACKETS)
    /\ [][(InitReturns /\ NoRxCompleted') =>
            /\ \A s \in Streams : ~rx_available(bdpp_rx_queue'[s])
            /\ bdpp_tx_queue' = << >>
            /\ bdpp_is_initialized'
            /\ Len(bdpp_free_queue') + Len(armed') = BDPP_MAX_APP_PACKETS
            /\ Range(bdpp_free_queue') \cup Range(armed') = RxIds]_vars

\* initialize() has just returned, with a buffer already armed by the transport.
C8_Witness ==
    /\ pc = "idle"
    /\ bdpp_is_initialized
    /\ NoRxCompleted
    /\ armed # << >>
    /\ heap = [i \in RxIds |-> create_rx_packet]

AvailReturns == pc = "avail_enable" /\ pc' = "idle"

\* C9: rx_packet_available(s) returns true exactly when RxQueue[s] was non-empty
\* when it was called, and on its return every queue and every packet is as at
\* entry.
C9_AvailablePeek ==
    [][AvailReturns =>
            /\ fgAvail = (fgEntry.rx[fgArg] # << >>)
            /\ bdpp_tx_queue' = fgEntry.tx
            /\ bdpp_rx_queue' = fgEntry.rx
            /\ bdpp_free_queue' = fgEntry.free
            /\ heap' = fgEntry.heap]_vars

\* rx_packet_available is returning true for a stream with a packet queued.
C9_Witness ==
    /\ pc = "avail_enable"
    /\ fgAvail
    /\ bdpp_rx_queue[fgArg] # << >>

TxQueued(p) == p \in Range(bdpp_tx_queue)

TxSent(p) == p \in Range(txWire) /\ is_flag_set(heap[p], BDPP_PKT_FLAG_DONE)

\* C10: under fair scheduling of the interrupt context every packet placed in the
\* TxQueue is eventually drained and marked DONE; the TxQueue loses a packet only
\* by the transport's drain of its head; queue_tx_packet returns with the work
\* pending bit enabled, and the bit is enabled whenever the foreground is outside
\* its critical sections with the TxQueue non-empty.
C10_TxEventuallySent ==
    /\ \A p \in TxIds : TxQueued(p) ~> TxSent(p)
    /\ [][/\ Len(bdpp_tx_queue') < Len(bdpp_tx_queue) =>
                /\ bdpp_tx_queue' = Tail(bdpp_tx_queue)
                /\ txWire' = Append(txWire, Head(bdpp_tx_queue))
                /\ txInFlight' = Head(bdpp_tx_queue)
                /\ pc' = pc
          /\ QueueTxReturns => UHCI_INTR_OUT_EOF \in int_ena']_vars
    /\ []((pc = "idle" /\ bdpp_tx_queue # << >>) => UHCI_INTR_OUT_EOF \in int_ena)

\* Both queued packets were drained and marked DONE, and the TxQueue is empty.
C10_Witness ==
    /\ Len(txSubmitted) = 2
    /\ txWire = txSubmitted
    /\ bdpp_tx_queue = << >>
    /\ \A p \in Range(txWire) : is_flag_set(heap[p], BDPP_PKT_FLAG_DONE)

\* C11: rx_packet_available and get_rx_packet return with the interrupt-enable
\* mask they were entered with, also when it was disabled at entry;
\* queue_tx_packet returns with the entry mask plus the transmit work-pending
\* bit; no call returns with a mask empty that was not empty at entry.
C11_MaskRestored ==
    [][/\ AvailReturns => int_ena' = fgEntry.ena
       /\ GetRxReturns => int_ena' = fgEntry.ena
       /\ QueueTxReturns => int_ena' = fgEntry.ena \cup {UHCI_INTR_OUT_EOF}
       /\ (AvailReturns \/ GetRxReturns \/ QueueTxReturns) /\ fgEntry.ena # {}
             => int_ena' # {}]_vars

\* get_rx_packet, entered with the interrupt source already disabled, is about
\* to return.
C11_Witness ==
    /\ pc = "get_enable"
    /\ fgEntry.ena = {}
    /\ fgOld = {}

\* The factory fixes the capacity: the small one for a driver-owned packet, the
\* large one for an app-owned TX packet and for an RX packet.
CapacityOf(factory) ==
    IF factory = "create_driver_tx_packet"
    THEN BDPP_SMALL_PACKET_DATA_SIZE ELSE BDDP_MAX_PACKET_DATA_SIZE

\* C12: every packet made by create_app_tx_packet or create_rx_packet has
\* capacity 4072 and every packet made by create_driver_tx_packet has capacity
\* 32, for every flags argument, and it stays so after appends, set_flags,
\* clear_flags, enqueue and dequeue.
C12_CapacityByFactory ==
    \A p \in DOMAIN heap : get_maximum_data_size(heap[p]) = CapacityOf(madeBy[p])

\* A driver-owned packet, created with the ownership bit in the flags argument,
\* has then been given the ownership bit by set_flags.
C12_Witness ==
    /\ pc = "packet"
    /\ madeBy = <<"create_driver_tx_packet">>
    /\ calls = << <<"set_flags", BDPP_PKT_FLAG_APP_OWNED>> >>
    /\ is_flag_set(heap[1], BDPP_PKT_FLAG_APP_OWNED)
    /\ get_maximum_data_size(heap[1]) = BDPP_SMALL_PACKET_DATA_SIZE

\* C13: while bytes are appended one at a time, each only when is_full() is
\* false, the length never exceeds the capacity, and is_full() is true exactly
\* when the length equals the capacity.
C13_LengthWithinCapacity ==
    \A p \in DOMAIN heap :
        /\ get_actual_data_size(heap[p]) <= get_maximum_data_size(heap[p])
        /\ is_full(heap[p]) <=> get_actual_data_size(heap[p]) = get_maximum_data_size(heap[p])

\* An app-owned packet has been filled to its capacity byte by byte.
C13_Witness ==
    /\ pc = "packet"
    /\ madeBy = <<"create_app_tx_packet">>
    /\ calls = << <<"append_data", Head(FillBlock)>> >>
    /\ is_full(heap[1])
    /\ Len(heap[1].data) = BDDP_MAX_PACKET_DATA_SIZE

\* C18 as stated: a caller that appends, in either form, only when is_full() has
\* returned false never has a length above the capacity nor data past the
\* payload buffer.
C18_Original ==
    \A p \in DOMAIN heap :
        /\ get_actual_data_size(heap[p]) <= get_maximum_data_size(heap[p])
        /\ Len(heap[p].data) <= get_maximum_data_size(heap[p])

\* C18, amended: after is_full() has returned false, appending a single byte
\* keeps the length and the data within the capacity; appending a block of count
\* bytes does so when the length plus count is within the capacity.
C18_AppendWithinCapacity ==
    [][\A p \in DOMAIN heap :
          LET call == calls'[1]
              fits == /\ get_actual_data_size(heap'[p]) <= get_maximum_data_size(heap'[p])
                      /\ Len(heap'[p].data) <= get_maximum_data_size(heap'[p]) IN
          /\ call[1] = "append_data" => fits
          /\ call[1] = "append_data_bytes"
                /\ get_actual_data_size(heap[p]) + call[2] <= get_maximum_data_size(heap[p])
                => fits]_vars

\* A block has been appended that ends exactly at the capacity of a driver-owned
\* packet.
C18_Witness ==
    /\ pc = "packet"
    /\ madeBy = <<"create_driver_tx_packet">>
    /\ calls = << <<"append_data_bytes", Len(FillBlock)>> >>
    /\ get_actual_data_size(heap[1]) = BDPP_SMALL_PACKET_DATA_SIZE

\* An allocation of the pool fill has failed.
AllocationFailed ==
    \/ pc = "panic"
    \/ \E p \in DOMAIN heap : heap[p].uhci_packet = "NULL"

\* C17 as stated: if an allocation fails while initialize() fills the RX pool,
\* is_initialized() stays false, the transport is not armed, and no packet of
\* the pool is put into operation.
C17_Original ==
    AllocationFailed =>
        /\ ~bdpp_is_initialized
        /\ int_ena = {}
        /\ armed = << >>

\* The bits of a flags byte that lie outside a mask.
Outside(flags, mask) == BitAnd(flags, BitNot(mask))

\* C14: for every flags byte and every mask m, set_flags(m) followed by
\* clear_flags(m) leaves every bit outside m as it was, and calling set_flags(m)
\* twice, or clear_flags(m) twice, gives the state that one call gives.
C14_FlagsAlgebra ==
    Len(calls) = MaxCalls =>
        LET first == calls[1]
            second == calls[MaxCalls]
            before == get_flags(fgEntry.heap[1]) IN
        /\ first[1] = "set_flags" /\ second[1] = "clear_flags"
              => Outside(get_flags(heap[1]), fgArg) = Outside(before, fgArg)
        /\ first[1] = second[1] => second[3] = first[3]

\* set_flags(m) then clear_flags(m) was called with a mask that has bits the
\* packet had set and bits it had clear, on a packet with bits outside the mask.
C14_Witness ==
    /\ Len(calls) = MaxCalls
    /\ calls[1][1] = "set_flags"
    /\ calls[MaxCalls][1] = "clear_flags"
    /\ BitAnd(get_flags(fgEntry.heap[1]), fgArg) \notin {0, fgArg}
    /\ Outside(get_flags(fgEntry.heap[1]), fgArg) # 0
    /\ get_flags(heap[1]) # get_flags(fgEntry.heap[1])

\* The usage sub-field of a flags byte.
Usage(flags) == BitAnd(flags, BDPP_PKT_FLAG_USAGE_BITS)

\* C19 as stated: for every mask, the usage sub-field is the same after
\* set_flags(mask) or clear_flags(mask) as before.
C19_Original ==
    calls # << >> => Usage(calls[1][3]) = Usage(get_flags(fgEntry.heap[1]))

\* C19, amended: set_flags(mask) and clear_flags(mask) act on the bits of mask,
\* in whichever sub-field they lie: the bits outside mask are the same after as
\* before, the bits of mask are all set, or all clear, after; so the usage
\* sub-field is the same after as before when mask has no usage bit.
C19_MaskFrame ==
    calls # << >> =>
        LET call == calls[1]
            before == get_flags(fgEntry.heap[1]) IN
        /\ Outside(call[3], call[2]) = Outside(before, call[2])
        /\ call[1] = "set_flags" => BitAnd(call[3], call[2]) = call[2]
        /\ call[1] = "clear_flags" => BitAnd(call[3], call[2]) = 0
        /\ Usage(call[2]) = 0 => Usage(call[3]) = Usage(before)

\* clear_flags was called with a mask of processing bits only, some of them set
\* in the packet, on a packet with usage bits set.
C19_Witness ==
    /\ calls # << >>
    /\ calls[1][1] = "clear_flags"
    /\ Usage(calls[1][2]) = 0
    /\ BitAnd(get_flags(fgEntry.heap[1]), calls[1][2]) # 0
    /\ Usage(calls[1][3]) # 0

\* C15: for every slot and stream in 0..15, a packet constructed with
\* (slot, stream) gives get_packet_index() == slot and get_stream_index() ==
\* stream, and its packed index byte is slot + 16 * stream.
C15_IndexRoundTrip ==
    pc = "packet" =>
        LET slot == calls[1][3]
            stream == calls[1][4] IN
        /\ get_packet_index(heap[1]) = slot
        /\ get_stream_index(heap[1]) = stream
        /\ heap[1].indexes = slot + 16 * stream

\* A packet was constructed with the highest slot and a stream in between.
C15_Witness ==
    /\ pc = "packet"
    /\ calls[1][3] = BDPP_MAX_STREAMS - 1
    /\ calls[1][4] = BDPP_MAX_RX_PACKETS
    /\ get_stream_index(heap[1]) = BDPP_MAX_RX_PACKETS

\* The ownership bit of a packet.
AppOwned(p) == is_flag_set(p, BDPP_PKT_FLAG_APP_OWNED)

\* The ownership class the factory gives: app-owned unless made by
\* create_driver_tx_packet.
OwnedBy(factory) == factory # "create_driver_tx_packet"

\* C16 as stated: the ownership bit of every packet is the one its factory
\* gave it, in every state, after any sequence of set_flags, clear_flags,
\* append, queue_tx_packet, completion, get_rx_packet and recycle.
C16_Original ==
    \A p \in DOMAIN heap : AppOwned(heap[p]) <=> OwnedBy(madeBy[p])

\* C16, amended: a packet is created with the ownership bit of its factory, and
\* the bit differs after a step only when the step is a set_flags or clear_flags
\* call whose mask holds the ownership bit; append, queue_tx_packet, completion,
\* get_rx_packet, recycle and set_flags / clear_flags with any other mask leave
\* it as it was.
C16_OwnershipFrame ==
    [][\A p \in DOMAIN heap' :
          IF p \in DOMAIN heap
          THEN heap'[p] # heap[p] /\ AppOwned(heap'[p]) # AppOwned(heap[p])
                  => /\ calls' # << >>
                     /\ calls'[1][1] \in {"set_flags", "clear_flags"}
                     /\ BitAnd(calls'[1][2], BDPP_PKT_FLAG_APP_OWNED) # 0
          ELSE AppOwned(heap'[p]) <=> OwnedBy(madeBy'[p])]_vars

\* An app-owned packet that holds data has had processing flags other than the
\* ownership bit cleared, and is app-owned still.
C16_Witness ==
    /\ pc = "packet"
    /\ madeBy = <<"create_app_tx_packet">>
    /\ calls = << <<"clear_flags", BDPP_PKT_FLAG_READY>> >>
    /\ get_actual_data_size(heap[1]) = Len(TxPayload)
    /\ AppOwned(heap[1])

\* The foreground is between the disable and the enable of a call.
InCritical ==
    pc \in {"qtx_flags", "qtx_push", "qtx_eof", "qtx_enable", "avail_read", "avail_enable",
            "get_body", "get_enable", "recycle_body", "recycle_enable"}

\* A hook of the interrupt context runs: each of them moves a packet to or from
\* the transport.
HookRuns == armed' # armed \/ txInFlight' # txInFlight

\* C20: no hook of the interrupt context runs between a foreground call's
\* disable and its enable, and the interrupt source is masked throughout.
C20_MutualExclusion ==
    [][InCritical => int_ena = {} /\ ~HookRuns]_vars

\* queue_tx_packet is in its critical section while the transmit interrupt,
\* enabled at entry, has a packet to drain and the transport is idle.
C20_Witness ==
    /\ pc = "qtx_push"
    /\ int_ena = {}
    /\ UHCI_INTR_OUT_EOF \in fgOld
    /\ bdpp_tx_queue # << >>
    /\ txInFlight = NULL
    /\ bdpp_free_queue # << >>

\* bdpp_initialize_driver() has not returned yet.
Initializing == pc \in {"start", "init_fill", "init_hw", "init_flag"}

\* C21: at the step of initialize() that starts DMA reception the FreeQueue
\* holds all BDPP_MAX_APP_PACKETS RX packets; is_initialized() is false in every
\* state before initialize() returns, and becomes true only in a step that
\* follows both the pool fill and the start of DMA reception.
C21_InitOrder ==
    /\ [](pc = "init_hw" =>
              /\ Len(bdpp_free_queue) = BDPP_MAX_APP_PACKETS
              /\ Range(bdpp_free_queue) = RxIds
              /\ int_ena = {})
    /\ [](Initializing => ~bdpp_is_initialized)
    /\ [][~bdpp_is_initialized /\ bdpp_is_initialized'
              => /\ Len(heap) = BDPP_MAX_APP_PACKETS
                 /\ Len(bdpp_free_queue) + Len(armed) + RxQueued = BDPP_MAX_APP_PACKETS
                 /\ int_ena = uart_dma_read]_vars

\* DMA reception has started and a buffer is armed already, while
\* is_initialized() is still false.
C21_Witness ==
    /\ pc = "init_flag"
    /\ armed # << >>
    /\ ~bdpp_is_initialized

\* The TX packets created so far.
TxMade == {p \in DOMAIN heap : madeBy[p] # "create_rx_packet"}

Ready(p) == is_flag_set(heap[p], BDPP_PKT_FLAG_READY)
Done(p) == is_flag_set(heap[p], BDPP_PKT_FLAG_DONE)

\* C22: every packet in TxQueue has READY set, and had it before it entered the
\* queue; a TX packet has DONE set only when it has been popped from TxQueue
\* and its send has completed; no TX packet has DONE without READY.
C22_TxLifecycle ==
    /\ [](\A p \in Range(bdpp_tx_queue) : Ready(p))
    /\ [](\A p \in TxMade :
              Done(p) => /\ Ready(p)
                         /\ p \in Range(txWire)
                         /\ p \notin Range(bdpp_tx_queue)
                         /\ p # txInFlight)
    /\ [][\A p \in Range(bdpp_tx_queue') \ Range(bdpp_tx_queue) : Ready(p)]_vars

\* One TX packet has been sent and is DONE while the next one waits in TxQueue,
\* READY and not DONE.
C22_Witness ==
    /\ \E p \in Range(txWire) : Done(p) /\ Ready(p)
    /\ \E p \in Range(bdpp_tx_queue) : Ready(p) /\ ~Done(p)

\* C23: an RX buffer enters the armed list only from the head of FreeQueue and
\* an RxQueue only from the head of the armed list, on completion; so every
\* packet get_rx_packet(s) returns has READY and DONE set, has stream index s,
\* and has a length within BDDP_MAX_PACKET_DATA_SIZE.
C23_RxLifecycle ==
    [][/\ \A p \in Range(armed') \ Range(armed) :
              bdpp_free_queue # << >> /\ p = Head(bdpp_free_queue)
       /\ \A s \in Streams :
              \A p \in Range(bdpp_rx_queue'[s]) \ Range(bdpp_rx_queue[s]) :
                  /\ armed # << >> /\ p = Head(armed)
                  /\ rxCompleted'[s] = Append(rxCompleted[s], p)
       /\ GetRxReturns /\ fgRes # NULL
              => /\ Ready(fgRes) /\ Done(fgRes)
                 /\ get_stream_index(heap[fgRes]) = fgArg
                 /\ get_actual_data_size(heap[fgRes]) <= BDDP_MAX_PACKET_DATA_SIZE
                 /\ Len(heap[fgRes].data) = get_actual_data_size(heap[fgRes])
                 /\ fgRes \in Range(rxCompleted[fgArg])]_vars

\* get_rx_packet(s) is about to return a packet with a payload, after a packet
\* of another stream has been returned.
C23_Witness ==
    /\ pc = "get_enable"
    /\ fgRes # NULL
    /\ get_actual_data_size(heap[fgRes]) > 0
    /\ \E s \in Streams \ {fgArg} : rxReturned[s] # << >>

\* How often a packet occurs in a queue.
Occurs(seq, p) == Cardinality({i \in 1..Len(seq) : seq[i] = p})

\* The first n queues of an array of queues, one after the other.
RECURSIVE Flatten(_, _)
Flatten(f, n) == IF n = 0 THEN << >> ELSE Flatten(f, n - 1) \o f[n - 1]

\* The RX packets created so far.
RxMade == RxIds \cap DOMAIN heap

\* The RX buffers in FreeQueue, armed, in the RxQueues and being returned by
\* get_rx_packet, as many times as they occur there.
RxPlaces ==
    bdpp_free_queue \o armed \o Flatten(bdpp_rx_queue, BDPP_MAX_STREAMS) \o RxInReturn

\* C24: every RX buffer is in exactly one place among FreeQueue, the armed
\* list, the RxQueues and the application's hands, once (the places hold as
\* many entries as there are RX buffers, and every buffer is among them); so a
\* packet that get_rx_packet returns is in no queue and not in the
\* application's hands already, and it has been returned no more often than it
\* has been completed.
C24_SingleHolder ==
    /\ [](/\ Len(RxPlaces) + Cardinality(appHeld) = Cardinality(RxMade)
          /\ Range(RxPlaces) \cup appHeld = RxMade
          /\ Range(bdpp_tx_queue) \cap RxMade = {}
          /\ txInFlight \notin RxMade
          /\ \A p \in Range(Flatten(rxReturned, BDPP_MAX_STREAMS)) :
                 Occurs(Flatten(rxReturned, BDPP_MAX_STREAMS), p)
                    <= Occurs(Flatten(rxCompleted, BDPP_MAX_STREAMS), p))
    /\ [][GetRxReturns /\ fgRes # NULL
              => /\ fgRes \notin appHeld
                 /\ fgRes \notin Range(bdpp_free_queue') \cup Range(armed')
                 /\ fgRes \notin Range(Flatten(bdpp_rx_queue', BDPP_MAX_STREAMS))]_vars

\* RX buffers are in all four places at once: free, armed, queued and held.
C24_Witness ==
    /\ bdpp_free_queue # << >>
    /\ armed # << >>
    /\ RxQueued > 0
    /\ appHeld # {}

\* The processing sub-field of a flags byte.
Processing(flags) == BitAnd(flags, BDPP_PKT_FLAG_PROCESS_BITS)

C26_PollThenGet ==
    [][/\ GetRxReturns /\ fgArg \in polled => fgRes # NULL
       /\ HookRuns =>
              \A s \in Streams :
                  /\ Len(bdpp_rx_queue'[s]) >= Len(bdpp_rx_queue[s])
                  /\ SubSeq(bdpp_rx_queue'[s], 1, Len(bdpp_rx_queue[s])) = bdpp_rx_queue[s]]_vars

\* get_rx_packet(s) is about to return a packet after rx_packet_available(s)
\* returned true, and a further packet of the stream had arrived by the time it
\* was called.
C26_Witness ==
    /\ pc = "get_enable"
    /\ fgArg \in polled
    /\ fgRes # NULL
    /\ Len(fgEntry.rx[fgArg]) > 1

\* rx_packet_available or get_rx_packet is at its access to bdpp_rx_queue.
AtRxQueueAccess == pc \in {"avail_read", "get_body", "avail_wild", "get_wild"}

\* C27 as stated: for every stream_index a caller can pass, the queue that
\* rx_packet_available and get_rx_packet access is one of the
\* BDPP_MAX_STREAMS RxQueues.
C27_Original ==
    AtRxQueueAccess => rx_queue_index(fgArg) \in Streams

====
